---- MODULE Spec2Model ----
(***************************************************************************)
(* A model of the SEC EDGAR 10-K downloader (script/download_10k_v2.py,    *)
(* class SECDownloaderV2): the filing catalog client (get_10k_filings),    *)
(* the directory listing scorer (get_filing_index), the content sniff      *)
(* (is_xbrl_file) and the document resolution engine (download_10k,        *)
(* download_document, download_all).                                       *)
(*                                                                         *)
(* Python strings are modelled as sequences of one-character strings, so   *)
(* that lower(), replace(), split(), slicing, `in` and endswith() are      *)
(* computed as the code computes them.                                     *)
(***************************************************************************)
EXTENDS Integers, Sequences, FiniteSets, TLC

VARIABLES
    ticker,            \* download_all's ticker argument
    count,             \* download_all's count argument
    pc,                \* position of the process in download_all
    run,               \* number of the current process run (the output directory persists)
    cik,               \* download_all: cik
    feed,              \* the submissions JSON the metadata endpoint answered with
    filings,           \* download_all: filings
    idx,               \* download_all: loop index i
    success_count,     \* download_all: success_count
    attempted,         \* number of download_10k calls download_all has made in this run
    items,             \* the directory item list of the index.json being processed
    index_info,        \* download_10k: index_info
    documents_to_try,  \* download_10k: documents_to_try
    k,                 \* download_10k: number of candidates already passed to download_document
    fetched,           \* document names requested by the current download_10k call, in order
    index_fetched,     \* index.json urls requested by the current download_10k call, in order
    io,                \* the sleeps and HTTP exchanges of the last step, in program order
    response,          \* what the last download_document call met
    n_saved,           \* number of download_document calls of this download_10k that returned True
    ret,               \* return value of the last download_10k call
    ret_filings,       \* what the last get_10k_filings call returned or raised
    fs                 \* the output directory: path -> file

vars == <<ticker, count, pc, run, cik, feed, filings, idx, success_count, attempted,
          items, index_info, documents_to_try, k, fetched, index_fetched, io, response,
          n_saved, ret, ret_filings, fs>>

(***************************************************************************)
(* Python str operations                                                   *)
(***************************************************************************)
Digits == {"0", "1", "2", "3", "4", "5", "6", "7", "8", "9"}

\* char.isdigit()
IsDigit(c) == c \in Digits

UpperLetters == <<"A","B","C","D","E","F","G","H","I","J","K","L","M","N","O","P","Q","R","S","T","U","V","W","X","Y","Z">>

LowerLetters == <<"a","b","c","d","e","f","g","h","i","j","k","l","m","n","o","p","q","r","s","t","u","v","w","x","y","z">>

LowerChar(c) ==
    IF \E n \in 1..26 : UpperLetters[n] = c
    THEN LowerLetters[CHOOSE n \in 1..26 : UpperLetters[n] = c]
    ELSE c

UpperChar(c) ==
    IF \E n \in 1..26 : LowerLetters[n] = c
    THEN UpperLetters[CHOOSE n \in 1..26 : LowerLetters[n] = c]
    ELSE c

\* s.lower()
Lower(s) == [n \in 1..Len(s) |-> LowerChar(s[n])]

\* s.upper()
Upper(s) == [n \in 1..Len(s) |-> UpperChar(s[n])]

\* sub in s
Contains(s, sub) ==
    \E n \in 0..(Len(s) - Len(sub)) : SubSeq(s, n + 1, n + Len(sub)) = sub

\* s.endswith(suf)
EndsWith(s, suf) ==
    /\ Len(suf) <= Len(s)
    /\ SubSeq(s, Len(s) - Len(suf) + 1, Len(s)) = suf

\* s[:n]
Slice(s, n) == SubSeq(s, 1, IF n < Len(s) THEN n ELSE Len(s))

\* s.replace(c, '') for a one-character c
RemoveChar(s, c) == SelectSeq(s, LAMBDA x : x # c)

\* s.split(c)[0]
SplitFirst(s, c) ==
    IF \E n \in 1..Len(s) : s[n] = c
    THEN SubSeq(s, 1, (CHOOSE n \in 1..Len(s) : s[n] = c /\ \A m \in 1..(n - 1) : s[m] # c) - 1)
    ELSE s

\* s.split(c)[-1]
SplitLast(s, c) ==
    IF \E n \in 1..Len(s) : s[n] = c
    THEN SubSeq(s, (CHOOSE n \in 1..Len(s) : s[n] = c /\ \A m \in (n + 1)..Len(s) : s[m] # c) + 1, Len(s))
    ELSE s

DigitValue(c) == CHOOSE n \in 0..9 : <<"0","1","2","3","4","5","6","7","8","9">>[n + 1] = c

RECURSIVE DigitsValue(_)
DigitsValue(s) ==
    IF s = <<>> THEN 0
    ELSE 10 * DigitsValue(SubSeq(s, 1, Len(s) - 1)) + DigitValue(s[Len(s)])

AllDigits(s) == Len(s) > 0 /\ \A n \in 1..Len(s) : IsDigit(s[n])

\* whether int(s) accepts the string s: an optional sign and decimal digits
IntParses(s) ==
    IF Len(s) > 0 /\ s[1] \in {"-", "+"} THEN AllDigits(Tail(s)) ELSE AllDigits(s)

\* int(s) for a string s that int() accepts
IntOfStr(s) ==
    IF s[1] = "-" THEN 0 - DigitsValue(Tail(s))
    ELSE IF s[1] = "+" THEN DigitsValue(Tail(s))
    ELSE DigitsValue(s)

\* str(int(s)) for a string of digits: the leading zeros go, "0" stays
RECURSIVE StripZeros(_)
StripZeros(s) ==
    IF Len(s) > 1 /\ s[1] = "0" THEN StripZeros(Tail(s)) ELSE s

(***************************************************************************)
(* get_filing_index: filtering, scoring and ranking of a filing's          *)
(* directory listing                                                       *)
(***************************************************************************)
html_suffixes == {<<".","h","t","m">>, <<".","h","t","m","l">>}

excluded_patterns ==
    {<<"e","x","h","i","b","i","t">>, <<"-","e","x">>, <<"_","e","x">>, <<"e","x","-">>, <<"e","x","_">>,
     <<"i","n","d","e","x",".","h","t","m">>, <<"i","n","d","e","x",".","h","t","m","l">>,
     <<".","j","p","g">>, <<".","g","i","f">>, <<".","p","n","g">>}

\* the values a JSON directory item can carry under 'size'
NoSize == [kind |-> "absent", int |-> 0, str |-> <<>>]

IntSize(n) == [kind |-> "int", int |-> n, str |-> <<>>]

StrSize(s) == [kind |-> "str", int |-> 0, str |-> s]

\* size_value = item.get('size', 0); int(size_value) if size_value else 0,
\* and 0 on ValueError / TypeError
SizeOf(size_value) ==
    CASE size_value.kind = "absent" -> 0
      [] size_value.kind = "int" -> size_value.int
      [] size_value.kind = "str" ->
            IF size_value.str = <<>> THEN 0
            ELSE IF IntParses(size_value.str) THEN IntOfStr(size_value.str)
            ELSE 0

\* name.endswith(('.htm', '.html')) and no excluded pattern in name_lower
KeepsItem(item) ==
    /\ \E suf \in html_suffixes : EndsWith(item.name, suf)
    /\ ~ \E x \in excluded_patterns : Contains(Lower(item.name), x)

Min(a, b) == IF a < b THEN a ELSE b

\* Priority without the cap on the size bonus
Priority_NoCap(item) ==
    LET name_lower == Lower(item.name)
        p1 == IF Contains(name_lower, <<"1","0","-","k">>) \/ Contains(name_lower, <<"1","0","k">>)
              THEN 100 ELSE 0
        p2 == IF ~ \E n \in 1..Len(Slice(item.name, 10)) : IsDigit(item.name[n])
              THEN p1 + 50 ELSE p1
        p3 == IF Len(item.name) < 20 THEN p2 + 25 ELSE p2
    IN  p3 + (SizeOf(item.size) \div 10000)

\* Priority with a form-token bonus no larger than the size cap
Priority_TokenBonus50(item) ==
    LET name_lower == Lower(item.name)
        p1 == IF Contains(name_lower, <<"1","0","-","k">>) \/ Contains(name_lower, <<"1","0","k">>)
              THEN 50 ELSE 0
        p2 == IF ~ \E n \in 1..Len(Slice(item.name, 10)) : IsDigit(item.name[n])
              THEN p1 + 50 ELSE p1
        p3 == IF Len(item.name) < 20 THEN p2 + 25 ELSE p2
    IN  p3 + Min(SizeOf(item.size) \div 10000, 50)

\* Priority looking for digits in name[:4] only
Priority_Window4(item) ==
    LET name_lower == Lower(item.name)
        p1 == IF Contains(name_lower, <<"1","0","-","k">>) \/ Contains(name_lower, <<"1","0","k">>)
              THEN 100 ELSE 0
        p2 == IF ~ \E n \in 1..Len(Slice(item.name, 4)) : IsDigit(item.name[n])
              THEN p1 + 50 ELSE p1
        p3 == IF Len(item.name) < 20 THEN p2 + 25 ELSE p2
    IN  p3 + Min(SizeOf(item.size) \div 10000, 50)

\* the priority the loop body accumulates for one surviving item
Priority(item) ==
    LET name_lower == Lower(item.name)
        p0 == 0
        p1 == IF Contains(name_lower, <<"1","0","-","k">>) \/ Contains(name_lower, <<"1","0","k">>)
              THEN p0 + 100 ELSE p0
        p2 == IF ~ \E n \in 1..Len(Slice(item.name, 10)) : IsDigit(item.name[n])
              THEN p1 + 50 ELSE p1
        p3 == IF Len(item.name) < 20 THEN p2 + 25 ELSE p2
    IN  p3 + Min(SizeOf(item.size) \div 10000, 50)

\* the dictionary appended to htm_docs
DocOf(item) ==
    [name |-> item.name, size |-> SizeOf(item.size), type |-> item.type,
     priority |-> Priority(item)]

\* key(a) >= key(b) for the sort key (priority, size)
KeyGE(a, b) ==
    \/ a.priority > b.priority
    \/ a.priority = b.priority /\ a.size >= b.size

\* htm_docs.sort(key=..., reverse=True): descending and stable
RECURSIVE SortDocs(_)
SortDocs(docs) ==
    IF docs = <<>> THEN <<>>
    ELSE LET rest == SortDocs(SubSeq(docs, 1, Len(docs) - 1))
             d == docs[Len(docs)]
             n == Cardinality({m \in 1..Len(rest) : KeyGE(rest[m], d)})
         IN  SubSeq(rest, 1, n) \o <<d>> \o SubSeq(rest, n + 1, Len(rest))

\* the htm_docs list after the loop over items
HtmDocs(its) ==
    LET kept == SelectSeq(its, KeepsItem)
    IN  [n \in 1..Len(kept) |-> DocOf(kept[n])]

\* the value get_filing_index returns for a directory listing that was
\* fetched and parsed; 'primary' is a list of zero (None) or one name
IndexInfo(its) ==
    LET htm_docs == SortDocs(HtmDocs(its))
    IN  [ok |-> TRUE,
         documents |-> htm_docs,
         primary |-> IF htm_docs # <<>> THEN <<htm_docs[1].name>> ELSE <<>>,
         all_items |-> its]

\* the None get_filing_index returns from its except branch
NoIndex == [ok |-> FALSE, documents |-> <<>>, primary |-> <<>>, all_items |-> <<>>]

(***************************************************************************)
(* is_xbrl_file: the content sniff                                         *)
(*                                                                         *)
(* A response body is a run of `pad` filler bytes "#" followed by the      *)
(* bytes `body`.  The byte "xFF" is not valid UTF-8.                       *)
(***************************************************************************)
HeaderLen == 2000

\* xbrl_indicators without the inline-XBRL namespace declaration
xbrl_indicators_NoIx ==
    {<<"x","m","l","n","s",":","x","b","r","l">>, <<"i","n","l","i","n","e","x","b","r","l">>, <<"x","b","r","l",".","o","r","g","/","2","0","1","3","/","i","n","l","i","n","e","x","b","r","l">>,
     <<"<","?","x","m","l"," ","v","e","r","s","i","o","n">>, <<"x","b","r","l"," ","d","o","c","u","m","e","n","t"," ","c","r","e","a","t","e","d">>}

xbrl_indicators ==
    {<<"x","m","l","n","s",":","x","b","r","l">>, <<"x","m","l","n","s",":","i","x">>, <<"i","n","l","i","n","e","x","b","r","l">>, <<"x","b","r","l",".","o","r","g","/","2","0","1","3","/","i","n","l","i","n","e","x","b","r","l">>,
     <<"<","?","x","m","l"," ","v","e","r","s","i","o","n">>, <<"x","b","r","l"," ","d","o","c","u","m","e","n","t"," ","c","r","e","a","t","e","d">>}

Content(pad, body) == [pad |-> pad, body |-> body]

\* content[:2000]
HeaderBytes(content) ==
    IF content.pad >= HeaderLen THEN Content(HeaderLen, <<>>)
    ELSE Content(content.pad, Slice(content.body, HeaderLen - content.pad))

\* bytes.decode('utf-8', errors='ignore'): invalid bytes are dropped
Decode(bytes) == SelectSeq(bytes, LAMBDA b : b # "xFF")

\* content[:2000].decode('utf-8', errors='ignore').lower()
Header(content) ==
    LET h == HeaderBytes(content)
    IN  Content(h.pad, Lower(Decode(h.body)))

\* indicator in header: no indicator holds the filler "#", so a match lies
\* within the text that follows the filler
InHeader(indicator, header) == Contains(header.body, indicator)

is_xbrl_file(content) ==
    \E indicator \in xbrl_indicators : InHeader(indicator, Header(content))

(***************************************************************************)
(* get_cik                                                                 *)
(***************************************************************************)
TICKER_TO_CIK ==
    {<<<<"A","A","P","L">>, <<"0","0","0","0","3","2","0","1","9","3">>>>,
     <<<<"M","S","F","T">>, <<"0","0","0","0","7","8","9","0","1","9">>>>,
     <<<<"G","O","O","G","L">>, <<"0","0","0","1","6","5","2","0","4","4">>>>,
     <<<<"G","O","O","G">>, <<"0","0","0","1","6","5","2","0","4","4">>>>,
     <<<<"A","M","Z","N">>, <<"0","0","0","1","0","1","8","7","2","4">>>>,
     <<<<"T","S","L","A">>, <<"0","0","0","1","3","1","8","6","0","5">>>>,
     <<<<"M","E","T","A">>, <<"0","0","0","1","3","2","6","8","0","1">>>>,
     <<<<"N","V","D","A">>, <<"0","0","0","1","0","4","5","8","1","0">>>>,
     <<<<"J","P","M">>, <<"0","0","0","0","0","1","9","6","1","7">>>>,
     <<<<"V">>, <<"0","0","0","1","4","0","3","1","6","1">>>>,
     <<<<"W","M","T">>, <<"0","0","0","0","1","0","4","1","6","9">>>>,
     <<<<"D","I","S">>, <<"0","0","0","1","7","4","4","4","8","9">>>>,
     <<<<"N","F","L","X">>, <<"0","0","0","1","0","6","5","2","8","0">>>>,
     <<<<"P","Y","P","L">>, <<"0","0","0","1","6","3","3","9","1","7">>>>,
     <<<<"I","N","T","C">>, <<"0","0","0","0","0","5","0","8","6","3">>>>,
     <<<<"A","M","D">>, <<"0","0","0","0","0","0","2","4","8","8">>>>,
     <<<<"O","R","C","L">>, <<"0","0","0","1","3","4","1","4","3","9">>>>,
     <<<<"I","B","M">>, <<"0","0","0","0","0","5","1","1","4","3">>>>,
     <<<<"C","S","C","O">>, <<"0","0","0","0","8","5","8","8","7","7">>>>,
     <<<<"B","A">>, <<"0","0","0","0","0","1","2","9","2","7">>>>}

\* get_cik looking the ticker up as typed, without ticker.upper()
get_cik_NoUpper(tk) ==
    IF \E e \in TICKER_TO_CIK : e[1] = tk
    THEN (CHOOSE e \in TICKER_TO_CIK : e[1] = tk)[2]
    ELSE <<>>

\* get_cik(ticker); the None it returns for an unknown ticker is <<>>
get_cik(tk) ==
    IF \E e \in TICKER_TO_CIK : e[1] = Upper(tk)
    THEN (CHOOSE e \in TICKER_TO_CIK : e[1] = Upper(tk))[2]
    ELSE <<>>

(***************************************************************************)
(* get_company_filings / get_10k_filings                                   *)
(***************************************************************************)
\* the None get_company_filings returns from its except branch
NoData ==
    [ok |-> FALSE, name |-> "Unknown", form |-> <<>>, accessionNumber |-> <<>>,
     filingDate |-> <<>>, reportDate |-> <<>>, primaryDocument |-> <<>>]

\* whether filings[key][i] exists for the four keys the loop body reads
HasRow(data, i) ==
    /\ i <= Len(data.accessionNumber)
    /\ i <= Len(data.filingDate)
    /\ i <= Len(data.reportDate)
    /\ i <= Len(data.primaryDocument)

FilingAt(data, c, i) ==
    [company |-> data.name,
     cik |-> c,
     accessionNumber |-> data.accessionNumber[i],
     filingDate |-> data.filingDate[i],
     reportDate |-> data.reportDate[i],
     primaryDocument |-> data.primaryDocument[i]]

\* the loop `for i, form in enumerate(forms)` from position i on, with
\* ten_k_filings = acc; raised when an index or key lookup fails
RECURSIVE ScanForms(_, _, _, _, _)
ScanForms(data, c, cnt, i, acc) ==
    IF i > Len(data.form) THEN [raised |-> FALSE, value |-> acc]
    ELSE IF data.form[i] = "10-K" /\ Len(acc) < cnt
    THEN IF HasRow(data, i)
         THEN ScanForms(data, c, cnt, i + 1, Append(acc, FilingAt(data, c, i)))
         ELSE [raised |-> TRUE, value |-> <<>>]
    ELSE ScanForms(data, c, cnt, i + 1, acc)

\* get_10k_filings collecting while len(ten_k_filings) <= count
get_10k_filings_OneMore(data, c, cnt) ==
    IF ~ data.ok THEN [raised |-> FALSE, value |-> <<>>]
    ELSE ScanForms(data, c, cnt + 1, 1, <<>>)

get_10k_filings(data, c, cnt) ==
    IF ~ data.ok THEN [raised |-> FALSE, value |-> <<>>]
    ELSE ScanForms(data, c, cnt, 1, <<>>)

(***************************************************************************)
(* download_10k: the candidate list and the output file name               *)
(***************************************************************************)
\* AppendNew without the `not in documents_to_try` test
AppendNew_NoCheck(docs, names) == docs \o names

\* for name in names: if name not in docs: docs.append(name)
RECURSIVE AppendNew(_, _)
AppendNew(docs, names) ==
    IF names = <<>> THEN docs
    ELSE AppendNew(IF \E n \in 1..Len(docs) : docs[n] = Head(names)
                   THEN docs ELSE Append(docs, Head(names)),
                   Tail(names))

\* f"{accession}.txt"
TxtName(filing_info) == RemoveChar(filing_info.accessionNumber, "-") \o <<".","t","x","t">>

\* the names of index_info['documents'][:3], when index_info is not None
TopDocs(info) ==
    IF info.ok /\ info.documents # <<>>
    THEN [n \in 1..Len(Slice(info.documents, 3)) |-> info.documents[n].name]
    ELSE <<>>

\* primary_doc, when it is truthy
PrimaryDoc(filing_info) ==
    IF filing_info.primaryDocument # <<>> THEN <<filing_info.primaryDocument>> ELSE <<>>

Fallbacks(tk, filing_info) ==
    LET ticker_lower == Lower(tk)
        report_date_compact == RemoveChar(filing_info.reportDate, "-")
    IN  <<ticker_lower \o <<"1","0","k","_">> \o report_date_compact \o <<".","h","t","m">>,
          ticker_lower \o <<"_","1","0","k",".","h","t","m">>,
          <<"f","o","r","m","1","0","-","k",".","h","t","m">>,
          <<"f","o","r","m","1","0","k",".","h","t","m">>>>

\* Candidates with the directory's top documents put before the .txt submission
Candidates_IndexFirst(tk, filing_info, info) ==
    LET d1 == AppendNew(TopDocs(info), <<TxtName(filing_info)>>)
        d2 == AppendNew(d1, PrimaryDoc(filing_info))
    IN  AppendNew(d2, Fallbacks(tk, filing_info))

\* documents_to_try as download_10k builds it
Candidates(tk, filing_info, info) ==
    LET d1 == <<TxtName(filing_info)>>
        d2 == AppendNew(d1, TopDocs(info))
        d3 == AppendNew(d2, PrimaryDoc(filing_info))
    IN  AppendNew(d3, Fallbacks(tk, filing_info))

\* filename = f"{ticker}_{report_date}_10K_filed_{filing_date}.{ext}"
FileName(tk, filing_info, doc_name) ==
    LET ext == IF Contains(doc_name, <<".">>) THEN SplitLast(doc_name, ".") ELSE <<"h","t","m">>
    IN  tk \o <<"_">> \o filing_info.reportDate \o <<"_","1","0","K","_","f","i","l","e","d","_">>
           \o filing_info.filingDate \o <<".">> \o ext

\* the url download_document requests
DocUrl(accession_number, document_name) ==
    [accession_cik |-> StripZeros(SplitFirst(accession_number, "-")),
     accession |-> RemoveChar(accession_number, "-"),
     name |-> document_name]

\* the url get_filing_index requests
IndexUrl(accession_number) == DocUrl(accession_number, <<"i","n","d","e","x",".","j","s","o","n">>)

\* PacedGet with the time.sleep before requests.get left out
PacedGet_NoSleep(kind) ==
    <<[op |-> "request", kind |-> kind], [op |-> "response", kind |-> kind]>>

\* time.sleep(0.15) and then requests.get, which returns or raises before
\* the caller goes on: the three fetch sites share this shape
PacedGet(kind) ==
    <<[op |-> "sleep", kind |-> kind],
      [op |-> "request", kind |-> kind], [op |-> "response", kind |-> kind]>>

\* int(cik_padded) raises ValueError unless the prefix is a decimal number
CikParses(accession_number) == AllDigits(SplitFirst(accession_number, "-"))

(***************************************************************************)
(* Bounds and the inputs the environment can supply                        *)
(***************************************************************************)
MaxItems == 2    \* longest directory listing drawn for get_filing_index alone

MaxFeed == 3     \* longest form array drawn for get_10k_filings alone

MaxCount == 2    \* largest count argument

MaxRuns == 2     \* number of process runs over the same output directory

DigitChar(n) == <<"0","1","2","3","4","5","6","7","8","9">>[n + 1]

RECURSIVE SeqsUpTo(_, _)
SeqsUpTo(S, n) ==
    IF n = 0 THEN {<<>>}
    ELSE LET shorter == SeqsUpTo(S, n - 1)
         IN  shorter \cup {Append(s, x) : s \in {q \in shorter : Len(q) = n - 1}, x \in S}

Item(nm, sz) == [name |-> nm, size |-> sz, type |-> "text.gif"]

\* directory items: names with and without the form token, a digit among
\* the first ten characters, twenty characters or more, an excluded pattern,
\* an HTML suffix; sizes absent, numeric, non-numeric, negative, above the cap
ItemPool ==
    {Item(<<"r","e","p","o","r","t",".","h","t","m">>, StrSize(<<"8","0","0","0","0","0">>)),
     Item(<<"r","e","p","o","r","t",".","h","t","m">>, NoSize),
     Item(<<"1","0","-","k","r","e","p","o","r","t",".","h","t","m">>, NoSize),
     Item(<<"1","0","-","k","r","e","p","o","r","t",".","h","t","m">>, IntSize(129999)),
     Item(<<"a","n","n","u","a","l","r","e","p","t",".","h","t","m">>, StrSize(<<"8","0","0","0","0","0">>)),
     Item(<<"a","n","n","u","a","l","r","e","p","t",".","h","t","m">>, StrSize(<<"-","1","5","0","0","0">>)),
     Item(<<"a","n","n","u","a","l","r","e","p","t","1","0","-","k",".","h","t","m">>, NoSize),
     Item(<<"a","n","n","u","a","l","r","e","p","t","1","0","-","k",".","h","t","m">>, IntSize(129999)),
     Item(<<"a","n","n","u","a","l","r","e","p","t","1","0","-","k",".","h","t","m">>, StrSize(<<"1","2","k","4">>)),
     Item(<<"t","s","l","a","-","2","0","2","3","1","2","3","1",".","h","t","m">>, StrSize(<<"5","0","0","0","0","0">>)),
     Item(<<"F","o","r","m","1","0","K","_","a","n","n","u","a","l","_","r","e","p","o","r","t","_","2","0","2","3",".","h","t","m","l">>, StrSize(<<"-","1","5","0","0","0">>)),
     Item(<<"c","o","n","s","o","l","i","d","a","t","e","d","_","s","t","a","t","e","m","e","n","t","s",".","h","t","m","l">>, StrSize(<<>>)),
     Item(<<"e","x","1","0","_","a","g","r","e","e","m","e","n","t",".","h","t","m">>, IntSize(129999)),
     Item(<<"e","x","h","i","b","i","t","9","9",".","h","t","m">>, NoSize),
     Item(<<"i","n","d","e","x",".","h","t","m","l">>, NoSize),
     Item(<<"c","h","a","r","t",".","j","p","g",".","h","t","m">>, NoSize),
     Item(<<"R","2",".","H","T","M">>, NoSize),
     Item(<<"t","s","l","a","-","2","0","2","3","1","2","3","1","_","l","a","b",".","x","m","l">>, StrSize(<<"8","0","0","0","0","0">>))}

\* directory listings the index endpoint answers with during a batch: one
\* with no surviving entry, one with a single survivor beside an exhibit, one
\* with more than three survivors, a repeated name, the declared primary
\* document and a conventional guess
MainListings ==
    {<<Item(<<"i","n","d","e","x",".","h","t","m","l">>, NoSize)>>,
     <<Item(<<"t","s","l","a","-","2","0","2","3","1","2","3","1",".","h","t","m">>, StrSize(<<"5","0","0","0","0","0">>)),
       Item(<<"e","x","1","0","_","a","g","r","e","e","m","e","n","t",".","h","t","m">>, StrSize(<<"4","0","0","0","0">>))>>,
     <<Item(<<"R","2",".","h","t","m">>, StrSize(<<"9","0","0","0">>)),
       Item(<<"f","o","r","m","1","0","-","k",".","h","t","m">>, StrSize(<<"2","5","0","0","0","0">>)),
       Item(<<"i","n","d","e","x",".","h","t","m","l">>, NoSize),
       Item(<<"t","s","l","a","-","2","0","2","3","1","2","3","1",".","h","t","m">>, StrSize(<<"2","5","0","0","0","0">>)),
       Item(<<"R","2",".","h","t","m">>, StrSize(<<"9","0","0","0">>)),
       Item(<<"r","e","p","o","r","t",".","h","t","m">>, StrSize(<<"8","0","0","0","0","0">>))>>}

\* response bodies the document endpoint answers with during a batch
PayloadPool ==
    {Content(0, <<"<","h","t","m","l",">","<","b","o","d","y",">","1","0","-","K">>),
     Content(0, <<"<","h","t","m","l"," ","x","m","l","n","s",":","i","x","=">>),
     Content(0, <<"<","H","T","M","L"," ","X","M","L","N","S",":","I","X","=">>),
     Content(HeaderLen - 8, <<"x","m","l","n","s",":","i","x">>)}

FormPool == {"10-K", "10-Q", "10-K/A"}

\* a submissions feed whose i-th row is recognisable by its values, with the
\* primaryDocument array `short` entries shorter than the form array
FeedOf(forms, short) ==
    [ok |-> TRUE, name |-> "Tesla, Inc.", form |-> forms,
     accessionNumber |-> [n \in 1..Len(forms) |-> <<"0","0","0","1","3","1","8","6","0","5","-","2","4","-","0","0","0","0","0">> \o <<DigitChar(n)>>],
     filingDate |-> [n \in 1..Len(forms) |-> <<"2","0","2","4","-","0","1","-","2">> \o <<DigitChar(n)>>],
     reportDate |-> [n \in 1..Len(forms) |-> <<"2","0","2","3","-","1","2","-","1">> \o <<DigitChar(n)>>],
     primaryDocument |->
        [n \in 1..(IF Len(forms) > short THEN Len(forms) - short ELSE 0)
            |-> <<"d","o","c">> \o <<DigitChar(n)>> \o <<".","h","t","m">>]]

CatalogFeeds ==
    {NoData} \cup {FeedOf(forms, short) : forms \in SeqsUpTo(FormPool, MaxFeed), short \in {0, 1}}

\* the TSLA catalog: two annual reports around a quarterly one
FeedTSLA ==
    [ok |-> TRUE, name |-> "Tesla, Inc.", form |-> <<"10-K", "10-Q", "10-K">>,
     accessionNumber |-> <<<<"0","0","0","1","3","1","8","6","0","5","-","2","4","-","0","0","0","0","0","2">>, <<"0","0","0","1","3","1","8","6","0","5","-","2","3","-","0","0","0","0","9","4">>, <<"0","0","0","1","3","1","8","6","0","5","-","2","3","-","0","0","0","0","0","5">>>>,
     filingDate |-> <<<<"2","0","2","4","-","0","1","-","2","5">>, <<"2","0","2","3","-","1","0","-","2","3">>, <<"2","0","2","3","-","0","1","-","3","1">>>>,
     reportDate |-> <<<<"2","0","2","3","-","1","2","-","3","1">>, <<"2","0","2","3","-","0","9","-","3","0">>, <<"2","0","2","2","-","1","2","-","3","1">>>>,
     primaryDocument |-> <<<<"t","s","l","a","-","2","0","2","3","1","2","3","1",".","h","t","m">>, <<"t","s","l","a","-","2","0","2","3","0","9","3","0",".","h","t","m">>, <<"f","o","r","m","1","0","-","k",".","h","t","m">>>>]

\* a catalog whose first row carries a malformed accession reference
FeedBad ==
    [ok |-> TRUE, name |-> "Tesla, Inc.", form |-> <<"10-K", "10-K">>,
     accessionNumber |-> <<<<"0","0","0","1","3","1","8","6","0","X","-","2","4","-","0","0","0","0","0","9">>, <<"0","0","0","1","3","1","8","6","0","5","-","2","4","-","0","0","0","0","0","2">>>>,
     filingDate |-> <<<<"2","0","2","4","-","0","2","-","0","1">>, <<"2","0","2","4","-","0","1","-","2","5">>>>,
     reportDate |-> <<<<"2","0","2","3","-","1","2","-","3","1">>, <<"2","0","2","3","-","1","2","-","3","1">>>>,
     primaryDocument |-> <<<<"t","s","l","a","-","2","0","2","3","1","2","3","1",".","h","t","m">>, <<"t","s","l","a","-","2","0","2","3","1","2","3","1",".","h","t","m">>>>]

\* a catalog row filed by an agent, with no primary document declared
FeedAgent ==
    [ok |-> TRUE, name |-> "Tesla, Inc.", form |-> <<"10-K">>,
     accessionNumber |-> <<<<"0","0","0","0","9","5","0","1","7","0","-","2","2","-","0","0","0","7","9","6">>>>,
     filingDate |-> <<<<"2","0","2","2","-","0","2","-","0","7">>>>,
     reportDate |-> <<<<"2","0","2","1","-","1","2","-","3","1">>>>,
     primaryDocument |-> <<<<>>>>]

MainFeeds == {NoData, FeedTSLA, FeedBad, FeedAgent}

TickerPool == {<<"T","S","L","A">>, <<"Z","Z","Z","Z">>}

(***************************************************************************)
(* State                                                                   *)
(***************************************************************************)
NoResponse == [status |-> "none", content |-> Content(0, <<>>), xbrl |-> FALSE, write |-> "none"]

NoFiles == [p \in {} |-> 0]

\* the variables of download_all and download_10k before either has run
Fresh ==
    /\ filings = <<>>
    /\ idx = 0
    /\ success_count = 0
    /\ attempted = 0
    /\ index_info = NoIndex
    /\ documents_to_try = <<>>
    /\ k = 0
    /\ fetched = <<>>
    /\ index_fetched = <<>>
    /\ io = <<>>
    /\ response = NoResponse
    /\ n_saved = 0
    /\ ret = "none"
    /\ ret_filings = [raised |-> FALSE, value |-> <<>>]

Init ==
    /\ ticker \in TickerPool
    /\ count \in 1..MaxCount
    /\ pc = "start"
    /\ run = 1
    /\ cik = <<>>
    /\ feed = NoData
    /\ items = <<>>
    /\ fs = NoFiles
    /\ Fresh

(***************************************************************************)
(* download_all, download_10k, download_document                           *)
(***************************************************************************)
\* download_all up to its loop: get_cik, then get_10k_filings on whatever the
\* metadata endpoint answers
DownloadAllStart ==
    /\ pc = "start"
    /\ cik' = get_cik(ticker)
    /\ IF cik' = <<>>
       THEN /\ pc' = "done"
            /\ io' = <<>>
            /\ UNCHANGED <<feed, filings, idx, ret_filings>>
       ELSE \E data \in (IF run = 1 THEN MainFeeds ELSE {feed}) :
               LET r == get_10k_filings(data, cik', count)
               IN  /\ feed' = data
                   /\ io' = PacedGet("metadata")
                   /\ ret_filings' = r
                   /\ filings' = r.value
                   /\ idx' = 1
                   /\ pc' = IF r.raised THEN "raised"
                            ELSE IF r.value = <<>> THEN "done"
                            ELSE "loop"
    /\ UNCHANGED <<ticker, count, run, success_count, attempted, items, index_info,
                   documents_to_try, k, fetched, index_fetched, response, n_saved, ret, fs>>

\* download_10k up to its loop over documents_to_try: get_filing_index on
\* whatever the index endpoint answers, then the candidate list
Download10kStart ==
    /\ pc = "loop"
    /\ idx <= Len(filings)
    /\ attempted' = attempted + 1
    /\ IF ~ CikParses(filings[idx].accessionNumber)
       THEN \* ValueError from int(cik_padded), outside any try
            /\ pc' = "raised"
            /\ io' = <<>>
            /\ UNCHANGED <<items, index_info, documents_to_try, k, fetched, index_fetched,
                           response, n_saved, ret>>
       ELSE /\ \E answer \in {[ok |-> FALSE, items |-> <<>>]}
                              \cup {[ok |-> TRUE, items |-> its] : its \in MainListings} :
                  /\ items' = answer.items
                  /\ index_info' = IF answer.ok THEN IndexInfo(answer.items) ELSE NoIndex
            /\ index_fetched' = <<IndexUrl(filings[idx].accessionNumber)>>
            /\ io' = PacedGet("index")
            /\ documents_to_try' = Candidates(ticker, filings[idx], index_info')
            /\ k' = 0
            /\ fetched' = <<>>
            /\ response' = NoResponse
            /\ n_saved' = 0
            /\ ret' = "none"
            /\ pc' = "try"
    /\ UNCHANGED <<ticker, count, run, cik, feed, filings, idx, success_count,
                   ret_filings, fs>>

\* open(output_filename, 'wb') creates or truncates the file, f.write fills
\* it; a write that failed leaves a file that holds none of the body for certain
WriteFile(files, path, file) ==
    [q \in DOMAIN files \cup {path} |-> IF q = path THEN file ELSE files[q]]

\* what download_document can meet: an HTTP or transport error, or a body
\* that is sniffed and then written, the write itself failing or not
Responses ==
    {[status |-> "http_error", content |-> Content(0, <<>>), xbrl |-> FALSE, write |-> "none"]}
    \cup {[status |-> "ok", content |-> c, xbrl |-> TRUE, write |-> "none"] :
            c \in {x \in PayloadPool : is_xbrl_file(x)}}
    \cup {[status |-> "ok", content |-> c, xbrl |-> FALSE, write |-> w] :
            c \in {x \in PayloadPool : ~ is_xbrl_file(x)},
            w \in {"ok", "write_error"}}

\* the return value of download_document
Downloaded(r) == r.status = "ok" /\ ~ r.xbrl /\ r.write = "ok"

\* the output directory after download_document met r
FilesAfter(files, path, r) ==
    IF r.status = "ok" /\ ~ r.xbrl /\ r.write = "ok"
    THEN WriteFile(files, path, [data |-> r.content, complete |-> TRUE])
    ELSE IF r.status = "ok" /\ ~ r.xbrl /\ r.write = "write_error"
    THEN WriteFile(files, path, [data |-> Content(0, <<>>), complete |-> FALSE])
    ELSE files

\* LoopGoesOn without the `return True` that leaves the loop
LoopGoesOn_NoReturn(got, n) == n < Len(documents_to_try)

\* whether the loop over documents_to_try goes on after a call that returned
\* `got` for candidate number n
LoopGoesOn(got, n) == ~ got /\ n < Len(documents_to_try)

\* one iteration of download_10k's loop: download_document for the next
\* candidate, and the return of download_10k into download_all's loop when
\* the candidate is accepted or was the last
DownloadDocument ==
    /\ pc = "try"
    /\ k < Len(documents_to_try)
    /\ LET doc_name == documents_to_try[k + 1]
           filepath == FileName(ticker, filings[idx], doc_name)
       IN  \E r \in Responses :
              /\ response' = r
              /\ fetched' = Append(fetched, DocUrl(filings[idx].accessionNumber, doc_name))
              /\ io' = PacedGet("document")
              /\ fs' = FilesAfter(fs, filepath, r)
              /\ k' = k + 1
              /\ n_saved' = IF Downloaded(r) THEN n_saved + 1 ELSE n_saved
              /\ IF LoopGoesOn(Downloaded(r), k + 1)
                 THEN /\ pc' = "try"
                      /\ UNCHANGED <<ret, idx, success_count>>
                 ELSE /\ pc' = "loop"
                      /\ ret' = IF Downloaded(r) THEN "success" ELSE "failure"
                      /\ idx' = idx + 1
                      /\ success_count' = IF Downloaded(r) THEN success_count + 1
                                          ELSE success_count
    /\ UNCHANGED <<ticker, count, run, cik, feed, filings, attempted, items, index_info,
                   documents_to_try, index_fetched, ret_filings>>

\* the end of download_all's loop: the summary
Summary ==
    /\ pc = "loop"
    /\ idx > Len(filings)
    /\ pc' = "done"
    /\ io' = <<>>
    /\ UNCHANGED <<ticker, count, run, cik, feed, filings, idx, success_count, attempted,
                   items, index_info, documents_to_try, k, fetched, index_fetched, response,
                   n_saved, ret, ret_filings, fs>>

\* the script is run again, with the same arguments and the same catalog
\* answer, over the output directory the earlier run left
RunAgain ==
    /\ pc \in {"done", "raised"}
    /\ run < MaxRuns
    /\ run' = run + 1
    /\ pc' = "start"
    /\ cik' = <<>>
    /\ filings' = <<>>
    /\ idx' = 0
    /\ success_count' = 0
    /\ attempted' = 0
    /\ items' = <<>>
    /\ index_info' = NoIndex
    /\ documents_to_try' = <<>>
    /\ k' = 0
    /\ fetched' = <<>>
    /\ index_fetched' = <<>>
    /\ io' = <<>>
    /\ response' = NoResponse
    /\ n_saved' = 0
    /\ ret' = "none"
    /\ ret_filings' = [raised |-> FALSE, value |-> <<>>]
    /\ UNCHANGED <<ticker, count, feed, fs>>

Next == DownloadAllStart \/ Download10kStart \/ DownloadDocument \/ Summary \/ RunAgain

Spec == Init /\ [][Next]_vars

(***************************************************************************)
(* get_filing_index alone, over every short directory listing              *)
(***************************************************************************)
InitIndex ==
    /\ ticker = <<"T","S","L","A">>
    /\ count = 1
    /\ pc = "index"
    /\ run = 1
    /\ cik = <<>>
    /\ feed = NoData
    /\ items \in SeqsUpTo(ItemPool, MaxItems)
    /\ fs = NoFiles
    /\ Fresh

\* get_filing_index: the listing is fetched and ranked, or the fetch fails
GetFilingIndex ==
    /\ pc = "index"
    /\ pc' = "indexed"
    /\ index_info' \in {IndexInfo(items), NoIndex}
    /\ io' = PacedGet("index")
    /\ UNCHANGED <<ticker, count, run, cik, feed, filings, idx, success_count, attempted,
                   items, documents_to_try, k, fetched, index_fetched, response, n_saved,
                   ret, ret_filings, fs>>

NextIndex == GetFilingIndex

SpecIndex == InitIndex /\ [][NextIndex]_vars

(***************************************************************************)
(* get_10k_filings alone, over every short feed and every count            *)
(***************************************************************************)
InitCatalog ==
    /\ ticker = <<"T","S","L","A">>
    /\ count \in 0..MaxCount
    /\ pc = "catalog"
    /\ run = 1
    /\ cik = get_cik(ticker)
    /\ feed \in CatalogFeeds
    /\ items = <<>>
    /\ fs = NoFiles
    /\ Fresh

Get10kFilings ==
    /\ pc = "catalog"
    /\ pc' = "listed"
    /\ ret_filings' = get_10k_filings(feed, cik, count)
    /\ io' = PacedGet("metadata")
    /\ UNCHANGED <<ticker, count, run, cik, feed, filings, idx, success_count, attempted,
                   items, index_info, documents_to_try, k, fetched, index_fetched, response,
                   n_saved, ret, fs>>

NextCatalog == Get10kFilings

SpecCatalog == InitCatalog /\ [][NextCatalog]_vars


(***************************************************************************)
(* download_all up to its loop alone, over tickers typed in any letter case *)
(***************************************************************************)
\* every way of writing s in upper and lower case letters
RECURSIVE CaseVariants(_)
CaseVariants(s) ==
    IF s = <<>> THEN {<<>>}
    ELSE {<<c>> \o rest : c \in {LowerChar(Head(s)), UpperChar(Head(s))},
                          rest \in CaseVariants(Tail(s))}

\* tickers of the static table, one of the bulk directory only, one of neither
ResolveTickers ==
    UNION {CaseVariants(t) : t \in {<<"t","s","l","a">>, <<"v">>, <<"b","a">>, <<"z","z","z","z">>, <<"q","q">>}}

\* the ticker directory the SEC publishes, as far as the tickers above go
BulkDirectory == {<<<<"Z","Z","Z","Z">>, <<"0","0","0","9","9","9","9","9","9","9">>>>, <<<<"T","S","L","A">>, <<"0","0","0","1","3","1","8","6","0","5">>>>}

InitResolve ==
    /\ ticker \in ResolveTickers
    /\ count \in 1..MaxCount
    /\ pc = "start"
    /\ run = 1
    /\ cik = <<>>
    /\ feed = NoData
    /\ items = <<>>
    /\ fs = NoFiles
    /\ Fresh

NextResolve == DownloadAllStart

SpecResolve == InitResolve /\ [][NextResolve]_vars

(***************************************************************************)
(* Properties of get_filing_index (checked under SpecIndex)                *)
(***************************************************************************)
\* the ranked listing get_filing_index returned
Ranked == index_info.documents

Returned == pc = "indexed" /\ index_info.ok

HasFormToken(nm) == Contains(Lower(nm), <<"1","0","-","k">>) \/ Contains(Lower(nm), <<"1","0","k">>)

NoLeadingDigit(nm) == \A n \in 1..Len(nm) : n <= 10 => nm[n] \notin Digits

ShortName(nm) == Len(nm) < 20

\* the declared byte size, 0 when missing or not a number
DeclaredSize(sz) ==
    IF sz.kind = "int" THEN sz.int
    ELSE IF sz.kind = "str" /\ IntParses(sz.str) THEN IntOfStr(sz.str)
    ELSE 0

\* floor(n / 10000)
FloorTenThousandths(n) == CHOOSE q \in -1000..1000 : q * 10000 <= n /\ n < (q + 1) * 10000

B(cond) == IF cond THEN 1 ELSE 0

C7_Score(item) ==
    100 * B(HasFormToken(item.name)) + 50 * B(NoLeadingDigit(item.name))
    + 25 * B(ShortName(item.name))
    + (IF FloorTenThousandths(DeclaredSize(item.size)) < 50
       THEN FloorTenThousandths(DeclaredSize(item.size)) ELSE 50)

C7_Survivors == {n \in 1..Len(items) : KeepsItem(items[n])}

\* C7: every directory entry that survives the filter carries the priority
\* 100*[token] + 50*[no digit in the first 10 characters] + 25*[length < 20]
\* + min(floor(size / 10000), 50), the size being 0 when missing or non-numeric;
\* the ranked listing holds exactly the survivors with these scores.
C7_ScoreFormula ==
    Returned =>
        /\ Len(Ranked) = Cardinality(C7_Survivors)
        /\ {<<Ranked[n].name, Ranked[n].priority>> : n \in 1..Len(Ranked)}
             = {<<items[n].name, C7_Score(items[n])>> : n \in C7_Survivors}

\* a survivor with the token, no leading digit, a short name and a size bonus
\* below the cap next to one whose bonus is capped
C7_Witness ==
    /\ Returned
    /\ \E n \in 1..Len(Ranked) : Ranked[n].priority = 100 + 50 + 25 + 12
    /\ \E n \in 1..Len(Ranked) : Ranked[n].priority = 50 + 25 + 50 /\ Ranked[n].size = 800000

\* b is a with the token "10-k" inserted somewhere, a holding no form token
C8_TokenInserted(a, b) ==
    /\ ~ HasFormToken(a)
    /\ Len(b) = Len(a) + 4
    /\ \E n \in 0..Len(a) : b = SubSeq(a, 1, n) \o <<"1","0","-","k">> \o SubSeq(a, n + 1, Len(a))

C9_IsExhibit(nm) ==
    \/ Contains(Lower(nm), <<"e","x","h","i","b","i","t">>)
    \/ Len(nm) >= 3 /\ Lower(SubSeq(nm, 1, 2)) = <<"e","x">> /\ (nm[3] \in Digits \cup {"-", "_"})

C9_IsIndex(nm) == Contains(Lower(nm), <<"i","n","d","e","x",".","h","t","m">>)

C9_IsImage(nm) == \E x \in {<<".","j","p","g">>, <<".","g","i","f">>, <<".","p","n","g">>} : Contains(Lower(nm), x)

\* C9: the ranked listing holds only names ending in an HTML extension, and no
\* exhibit file, index file or image asset; ex10_agreement.htm is not in it.
C9_OnlyReportDocuments ==
    Returned =>
        \A n \in 1..Len(Ranked) :
            /\ EndsWith(Ranked[n].name, <<".","h","t","m">>) \/ EndsWith(Ranked[n].name, <<".","h","t","m","l">>)
            /\ ~ C9_IsExhibit(Ranked[n].name)
            /\ ~ C9_IsIndex(Ranked[n].name)
            /\ ~ C9_IsImage(Ranked[n].name)
            /\ Ranked[n].name # <<"e","x","1","0","_","a","g","r","e","e","m","e","n","t",".","h","t","m">>


(***************************************************************************)
(* Properties of get_10k_filings (checked under SpecCatalog)               *)
(***************************************************************************)
\* the positions of the feed whose form type is exactly 10-K
C10_Matches == {n \in 1..Len(feed.form) : feed.form[n] = "10-K"}

\* the j-th matching position, in feed order
C10_Position(j) ==
    CHOOSE n \in C10_Matches : Cardinality({m \in C10_Matches : m < n}) = j - 1

C10_Expected ==
    IF Cardinality(C10_Matches) < count THEN Cardinality(C10_Matches) ELSE count

\* C10: get_10k_filings returns at most `count` records, each of form type
\* 10-K and carrying the accession, filing date, report date and primary
\* document of its own array index; they are the first min(count, matches)
\* matching positions, in feed order.
C10_FirstMatchesInOrder ==
    (pc = "listed" /\ ~ ret_filings.raised) =>
        LET got == ret_filings.value
        IN  /\ Len(got) <= count
            /\ Len(got) = C10_Expected
            /\ \A j \in 1..Len(got) :
                  LET n == C10_Position(j)
                  IN  /\ feed.form[n] = "10-K"
                      /\ got[j].accessionNumber = feed.accessionNumber[n]
                      /\ got[j].filingDate = feed.filingDate[n]
                      /\ got[j].reportDate = feed.reportDate[n]
                      /\ got[j].primaryDocument = feed.primaryDocument[n]

\* the limit cuts the matches short, and a row of another form type lies
\* before a returned one
C10_Witness ==
    /\ pc = "listed"
    /\ ~ ret_filings.raised
    /\ count >= 1
    /\ Len(ret_filings.value) = count
    /\ Cardinality(C10_Matches) > count
    /\ feed.form[1] # "10-K"
    /\ ret_filings.value[1].accessionNumber = feed.accessionNumber[2]


(***************************************************************************)
(* Properties of the document resolution engine (checked under Spec)       *)
(***************************************************************************)
FetchedNames == [n \in 1..Len(fetched) |-> fetched[n].name]

\* the filing the running download_10k call resolves
Current == filings[idx]

\* the last candidate was fetched and its content was not sniffed as XBRL
C1_FetchedAndReadable == response.status = "ok" /\ ~ response.xbrl

\* C1 as stated: candidates are fetched in list order and download_10k
\* returns success at the first candidate whose fetch succeeds and whose
\* content is not sniffed as XBRL; no later candidate is fetched and exactly
\* one candidate's bytes are saved.
C1_FirstReadableWins ==
    /\ FetchedNames = SubSeq(documents_to_try, 1, k)
    /\ C1_FetchedAndReadable <=> ret = "success"
    /\ ret = "success" => n_saved = 1
    /\ pc = "try" => n_saved = 0

\* C1 as amended: the same with "and whose write to the target path
\* completes": the loop goes on exactly while no download_document call has
\* returned True, it ends with failure only after the last candidate, and
\* exactly one call returns True in an invocation that succeeds.
C1_FirstSavedWins ==
    /\ FetchedNames = SubSeq(documents_to_try, 1, k)
    /\ (C1_FetchedAndReadable /\ response.write = "ok") <=> ret = "success"
    /\ ret = "success" => n_saved = 1
    /\ ret # "success" => n_saved = 0
    /\ pc = "try" => ret = "none" /\ k < Len(documents_to_try)
    /\ ret = "failure" => k = Len(documents_to_try)

\* success at a candidate that is neither the first nor the last, after a
\* candidate that was fetched and readable but could not be written
C1_Witness ==
    /\ ret = "success"
    /\ k >= 2
    /\ k < Len(documents_to_try)
    /\ \E p \in DOMAIN fs : ~ fs[p].complete

C2_Guesses ==
    <<Lower(ticker) \o <<"1","0","k","_">> \o RemoveChar(Current.reportDate, "-") \o <<".","h","t","m">>,
      Lower(ticker) \o <<"_","1","0","k",".","h","t","m">>,
      <<"f","o","r","m","1","0","-","k",".","h","t","m">>,
      <<"f","o","r","m","1","0","k",".","h","t","m">>>>

C2_TopThree ==
    [n \in 1..(IF Len(index_info.documents) < 3 THEN Len(index_info.documents) ELSE 3)
        |-> index_info.documents[n].name]

C2_Concat ==
    <<RemoveChar(Current.accessionNumber, "-") \o <<".","t","x","t">>>>
    \o C2_TopThree
    \o (IF Current.primaryDocument = <<>> THEN <<>> ELSE <<Current.primaryDocument>>)
    \o C2_Guesses

\* the first occurrences of s, in order
C2_FirstOccurrences(s) ==
    LET first == {n \in 1..Len(s) : \A m \in 1..(n - 1) : s[m] # s[n]}
        nth(j) == CHOOSE n \in first : Cardinality({m \in first : m < n}) = j - 1
    IN  [j \in 1..Cardinality(first) |-> s[nth(j)]]

C2_SortedDescending ==
    \A a, b \in 1..Len(index_info.documents) :
        a < b =>
            \/ index_info.documents[a].priority > index_info.documents[b].priority
            \/ /\ index_info.documents[a].priority = index_info.documents[b].priority
               /\ index_info.documents[a].size >= index_info.documents[b].size

\* C2: documents_to_try is the first-occurrence de-duplication of: the
\* combined text name, the first three entries of the listing sorted
\* descending by (score, size) (none when there is no listing), the declared
\* primary document when present, the four conventional guesses; every name
\* occurs once and the combined text name is first.
C2_CandidateList ==
    pc = "try" =>
        /\ C2_SortedDescending
        /\ documents_to_try = C2_FirstOccurrences(C2_Concat)
        /\ documents_to_try[1] = RemoveChar(Current.accessionNumber, "-") \o <<".","t","x","t">>
        /\ \A a, b \in 1..Len(documents_to_try) :
              documents_to_try[a] = documents_to_try[b] => a = b

\* a listing of more than three entries whose top three hold the primary
\* document and a conventional guess, so that the list is shorter than the
\* concatenation
C2_Witness ==
    /\ pc = "try"
    /\ Len(index_info.documents) > 3
    /\ Len(documents_to_try) + 2 <= Len(C2_Concat)

\* the first 2000 bytes of the content hold the inline-XBRL namespace
\* declaration xmlns:ix
C3_HasInlineMarker(content) ==
    \E n \in 0..(Len(content.body) - 8) :
        /\ SubSeq(content.body, n + 1, n + 8) = <<"x","m","l","n","s",":","i","x">>
        /\ content.pad + n + 8 <= 2000

\* C3: a fetched payload whose first 2000 bytes hold an inline-XBRL namespace
\* marker is rejected and the output directory is left as it was; no file
\* holds such a payload, and download_10k never succeeds on one, so that a
\* filing whose candidates are all such payloads ends failed with no file.
C3_MarkerPayloadRejected ==
    /\ [](/\ (response.status = "ok" /\ C3_HasInlineMarker(response.content))
                => (response.xbrl /\ response.write = "none" /\ ret # "success")
          /\ \A p \in DOMAIN fs : ~ C3_HasInlineMarker(fs[p].data))
    /\ [][(response'.status = "ok" /\ C3_HasInlineMarker(response'.content)
              /\ fetched' # fetched) => fs' = fs]_vars

\* every candidate of a filing was fetched, the last one (at least) was a
\* marker payload at the very end of the sniffed header, the filing failed
\* and the output directory is empty
C3_Witness ==
    /\ ret = "failure"
    /\ k = Len(documents_to_try)
    /\ response.status = "ok"
    /\ response.content.pad > 0
    /\ C3_HasInlineMarker(response.content)
    /\ fs = NoFiles

\* the output paths download_10k can write for the current filing
C4_Targets == {FileName(ticker, Current, documents_to_try[n]) : n \in 1..Len(documents_to_try)}

\* C4: resolving a filing whose target file already exists performs no
\* fetch and leaves the file as it is; a saved file is never overwritten.
C4_ExistingTargetKept ==
    [][/\ (pc = "try" /\ \E p \in C4_Targets : p \in DOMAIN fs /\ fs[p].complete)
            => (fetched' = fetched /\ fs' = fs)
       /\ \A p \in DOMAIN fs : fs[p].complete => fs'[p] = fs[p]]_vars

\* C5: no partial or truncated file remains at a target path: a file exists
\* only if a complete accepted download was written to it.
C5_NoPartialFile == \A p \in DOMAIN fs : fs[p].complete

\* C6: no exception of one filing's resolution leaves the batch loop:
\* download_all attempts every filing of the list.
C6_BatchNeverAborts ==
    /\ ~ (pc = "raised" /\ ~ ret_filings.raised)
    /\ (pc = "done" /\ filings # <<>>) => attempted = Len(filings)


(***************************************************************************)
(* C11: when the metadata fetch fails or its response cannot be parsed     *)
(* (no JSON, parallel arrays missing, or a parallel array shorter than the *)
(* form array), get_10k_filings returns the empty list and does not raise. *)
(***************************************************************************)
\* the feed is no usable catalog: nothing came back, or some row of the form
\* array has no entry in one of the parallel arrays
C11_Unparseable == ~ feed.ok \/ \E n \in 1..Len(feed.form) : ~ HasRow(feed, n)

C11_UnparseableGivesEmpty ==
    (pc = "listed" /\ C11_Unparseable)
        => (~ ret_filings.raised /\ ret_filings.value = <<>>)


(***************************************************************************)
(* C12: the TSLA scenario.  For ticker TSLA and the 10-K filing with       *)
(* accession 0001318605-24-000002, report date 2023-12-31, filed           *)
(* 2024-01-25, whose directory lists tsla-20231231.htm and                 *)
(* ex10_agreement.htm: the first document fetched is                       *)
(* 000131860524000002.txt; when that fails the next one fetched is         *)
(* tsla-20231231.htm, and if its content passes the sniff it is accepted   *)
(* and saved as TSLA_2023-12-31_10K_filed_2024-01-25.htm and no further    *)
(* candidate is fetched.                                                   *)
(***************************************************************************)
\* the filing the last download_10k call was made for
C12_Filing == IF pc = "try" THEN filings[idx] ELSE filings[idx - 1]

C12_ListingNames == {items[n].name : n \in 1..Len(items)}

\* download_10k has fetched at least one document for the scenario's filing
\* over the scenario's directory listing
C12_InScenario ==
    /\ pc \in {"try", "loop"}
    /\ k >= 1
    /\ ticker = <<"T","S","L","A">>
    /\ C12_Filing.accessionNumber = <<"0","0","0","1","3","1","8","6","0","5","-","2","4","-","0","0","0","0","0","2">>
    /\ C12_Filing.reportDate = <<"2","0","2","3","-","1","2","-","3","1">>
    /\ C12_Filing.filingDate = <<"2","0","2","4","-","0","1","-","2","5">>
    /\ index_info.ok
    /\ C12_ListingNames = {<<"t","s","l","a","-","2","0","2","3","1","2","3","1",".","h","t","m">>, <<"e","x","1","0","_","a","g","r","e","e","m","e","n","t",".","h","t","m">>}

C12_Target == <<"T","S","L","A","_","2","0","2","3","-","1","2","-","3","1","_","1","0","K","_","f","i","l","e","d","_","2","0","2","4","-","0","1","-","2","5",".","h","t","m">>

\* the second fetch ended the call with the report saved under the target
C12_AcceptedAndSaved ==
    /\ pc = "loop"
    /\ ret = "success"
    /\ Len(fetched) = 2
    /\ C12_Target \in DOMAIN fs
    /\ fs[C12_Target] = [data |-> response.content, complete |-> TRUE]

C12_FetchOrder ==
    /\ fetched[1].name = <<"0","0","0","1","3","1","8","6","0","5","2","4","0","0","0","0","0","2",".","t","x","t">>
    /\ k >= 2 => fetched[2].name = <<"t","s","l","a","-","2","0","2","3","1","2","3","1",".","h","t","m">>

C13_Entries ==
    {n \in 1..Len(index_info.documents) :
        /\ index_info.documents[n].name = <<"t","s","l","a","-","2","0","2","3","1","2","3","1",".","h","t","m">>
        /\ index_info.documents[n].size = 500000}

\* as claimed: the entry scores 125
C13_Scores125 ==
    (pc = "indexed" /\ index_info.ok) =>
        \A n \in C13_Entries : index_info.documents[n].priority = 125

\* as amended: the entry scores 75 = 0 + 25 + 50, the digits of its date
\* lying within its first ten characters
C13_Scores75 ==
    (pc = "indexed" /\ index_info.ok) =>
        \A n \in C13_Entries : index_info.documents[n].priority = 75

C13_Witness == pc = "indexed" /\ index_info.ok /\ C13_Entries # {}


(***************************************************************************)
(* C14: every document fetch and every directory-index fetch for a filing  *)
(* of the company with identifier C is addressed by C without its leading  *)
(* zeros, the accession reference without dashes, and the document name,   *)
(* also when the accession reference begins with another filer's id.       *)
(***************************************************************************)
\* the urls the current download_10k call has requested
C14_Urls ==
    {index_fetched[n] : n \in 1..Len(index_fetched)} \cup {fetched[n] : n \in 1..Len(fetched)}

C15_FixedCandidates(f) ==
    {TxtName(f)} \cup {Fallbacks(ticker, f)[n] : n \in 1..Len(Fallbacks(ticker, f))}

\* a first run over an empty output directory has ended
C15_RunEnded == pc = "done" /\ run = 1 /\ filings # <<>>

C15_OneFilePerSuccess ==
    C15_RunEnded =>
        /\ Cardinality(DOMAIN fs) = success_count
        /\ \A p \in DOMAIN fs :
              \E n \in 1..Len(filings) :
                 \A d \in C15_FixedCandidates(filings[n]) : p = FileName(ticker, filings[n], d)


(***************************************************************************)
(* C16: the resolver upper-cases the ticker before lookup, so every        *)
(* letter-case variant of a ticker resolves alike; a ticker in neither the *)
(* static table nor the bulk directory gives NotFound without raising, and *)
(* the caller then makes no catalog or document request for it.            *)
(***************************************************************************)
C16_Variants(t) == {v \in ResolveTickers : Upper(v) = Upper(t)}

C16_InStaticTable(t) == \E e \in TICKER_TO_CIK : e[1] = Upper(t)

C16_InDirectory(t) == \E e \in BulkDirectory : e[1] = Upper(t)

\* download_all returned without any catalog, index or document request
C16_NoRequest ==
    /\ pc = "done"
    /\ io = <<>>
    /\ index_fetched = <<>>
    /\ fetched = <<>>
    /\ attempted = 0

C16_ResolverContract ==
    pc # "start" =>
        /\ \A v \in C16_Variants(ticker) : get_cik(v) = cik
        /\ (~ C16_InStaticTable(ticker) /\ ~ C16_InDirectory(ticker))
              => (cik = <<>> /\ C16_NoRequest)

C16_Witness ==
    /\ pc = "done"
    /\ ticker = <<"q","Q">>
    /\ cik = <<>>
    /\ C16_NoRequest

(***************************************************************************)
(* C17: a ticker absent from the static table is looked up in the bulk     *)
(* ticker directory and, when present there, resolves to the directory's   *)
(* identifier; the directory is fetched at most once per run, and a failed *)
(* directory fetch is not retried and gives NotFound.                      *)
(***************************************************************************)
C17_DirectoryRequests == {n \in 1..Len(io) : io[n] = [op |-> "request", kind |-> "directory"]}

C17_DirectoryFallback ==
    (pc # "start" /\ ~ C16_InStaticTable(ticker)) =>
        /\ \A e \in BulkDirectory : e[1] = Upper(ticker) => cik \in {e[2], <<>>}
        /\ (C16_InDirectory(ticker) /\ cik = <<>>) => C17_DirectoryRequests # {}
        /\ Cardinality(C17_DirectoryRequests) <= 1


(***************************************************************************)
(* C18: every outbound HTTP request (metadata, directory index, document)  *)
(* is immediately preceded by a blocking pacing wait, so no two requests   *)
(* follow each other without a wait between them, and at most one request  *)
(* is outstanding at any time.                                             *)
(***************************************************************************)
\* requests sent and not yet answered after the first n events of the step
C18_Outstanding(n) ==
    Cardinality({m \in 1..n : io[m].op = "request"})
        - Cardinality({m \in 1..n : io[m].op = "response"})

C18_PacedRequests ==
    \A n \in 1..Len(io) :
        /\ io[n].op = "request" =>
              (n > 1 /\ io[n - 1] = [op |-> "sleep", kind |-> io[n].kind])
        /\ C18_Outstanding(n) \in {0, 1}

\* a document request has just been made, after an index and a metadata request
C18_Witness ==
    /\ pc = "try"
    /\ k >= 1
    /\ \E n \in 1..Len(io) : io[n] = [op |-> "request", kind |-> "document"]

(***************************************************************************)
(* C19: every download_10k call ends with success or failure after at most *)
(* one directory-index fetch and at most nine document fetches: the        *)
(* candidate list holds between 1 and 9 names and no candidate name is     *)
(* fetched more than once in the call, whatever the fetches meet.          *)
(***************************************************************************)
\* a download_10k call is under way or has returned
C19_Called == attempted >= 1 /\ pc \in {"try", "loop", "done"}

\* the call download_all made last left by an exception
C19_Raised == pc = "raised" /\ ~ ret_filings.raised

C19_FetchBounds ==
    C19_Called =>
        /\ Len(index_fetched) <= 1
        /\ Len(fetched) <= 9
        /\ Len(documents_to_try) \in 1..9
        /\ k <= Len(documents_to_try)
        /\ \A m, n \in 1..Len(fetched) : fetched[m].name = fetched[n].name => m = n
        /\ pc # "try" => ret \in {"success", "failure"}

C19_BoundedCall == ~ C19_Raised /\ C19_FetchBounds

====
